---- MODULE Spec2Model ----
(***************************************************************************)
(* TmuxManager.wait_idle (src/src/tmux_iterm_command/manager.py) as a      *)
(* state machine.  One call of wait_idle runs against a tmux session whose *)
(* pane content is changed by the program running in the pane.  Time is a  *)
(* wall clock counted in ticks, read by each time.time() of the code.  The *)
(* clock advances by poll_interval in time.sleep and, by a bounded amount, *)
(* while the call is blocked in the multiplexer (find_where, capture_pane) *)
(* or oversleeps.  The clock is taken to be non-decreasing.                *)
(***************************************************************************)
EXTENDS Integers, Sequences, FiniteSets, TLC

VARIABLES
    session,              \* TmuxManager._session: None or the session's name
    panes,                \* the session's windows: window index -> pane indices
    screen,               \* what capture_pane of the target pane returns now
    clock,                \* time.time()
    pc,                   \* position of the wait_idle call
    args,                 \* the arguments of the call
    start_time,           \* local of wait_idle
    last_content,         \* local of wait_idle
    last_change_time,     \* local of wait_idle
    current_content_str,  \* local of wait_idle
    result,               \* the returned dict
    hist,                 \* observations of the call, for the properties only
    sessions,             \* server.list_sessions(): the session names, in order
    session_name,         \* TmuxManager.session_name
    muxlog,               \* the changes the manager asked of tmux, in order
    calls                 \* the wait_idle calls that run side by side

vars == <<session, panes, screen, clock, pc, args, start_time, last_content,
          last_change_time, current_content_str, result, hist,
          sessions, session_name, muxlog, calls>>

-----------------------------------------------------------------------------
(* Bounds of the model *)

MaxTimeout == 3
MaxQuiet == 4
MaxPoll == 2
MaxDelay == 3
MaxLines == 3

-----------------------------------------------------------------------------
(* Values *)

None == "None"
NoTime == -1

WindowIdx == 0..1
PaneIdx == 0..1

\* the session layouts: no window at all, or window 0 with pane 0
Layouts == { [w \in {} |-> {}], [w \in {0} |-> {0}] }

SessionNames == {"claude-dev"}

\* line 18: the default of session_name
DefaultSessionName == "claude-dev"

\* what pane.capture_pane() may return: None or a list of lines
Lines(ls) == [captured |-> TRUE, lines |-> ls]
NoCapture == [captured |-> FALSE, lines |-> <<>>]
Snapshots == { NoCapture, Lines(<<>>), Lines(<<"abc">>), Lines(<<"abc", "$">>) }

\* str(e) of an exception raised by pane.capture_pane()
FetchErrors == {"can't find pane", "server exited"}

\* a change asked of tmux: new_window, split_window, send_keys, kill_window or
\* kill_pane, with its target and, for send_keys, the keys and the enter flag
MuxCall(call, window, pane, keys, enter) ==
    [call |-> call, window |-> window, pane |-> pane, keys |-> keys,
     enter |-> enter]

Timings ==
    { [timeout |-> t, quiet_for |-> q, poll_interval |-> p] :
        t \in 1..MaxTimeout, q \in 1..MaxQuiet, p \in 1..MaxPoll }


-----------------------------------------------------------------------------
(* Pure parts of the code *)

\* '\n'.join(lines)
RECURSIVE JoinLines(_)
JoinLines(lines) ==
    IF lines = <<>> THEN ""
    ELSE IF Len(lines) = 1 THEN lines[1]
    ELSE lines[1] \o "\n" \o JoinLines(Tail(lines))

\* lines 232-234: None becomes [], then the lines are joined ('' when empty)
ContentStr(captured) ==
    LET current_content == IF captured = NoCapture THEN <<>> ELSE captured.lines
    IN  IF current_content # <<>> THEN JoinLines(current_content) ELSE ""

\* variant of the loop condition that also admits now - start = timeout
LoopCondInclusive(now, start, timeout) == now - start <= timeout

\* line 230: the loop condition
LoopCond(now, start, timeout) == now - start < timeout

\* variant of the change test that takes an empty snapshot for "no change"
ContentChangedNonEmpty(current, last) == current # "" /\ current # last

\* line 236: the change test
ContentChanged(current, last) == current # last

\* variant of the quiet test that measures from the start of the call
IsQuietSinceStart(now, last_change, quiet_for) == now - start_time >= quiet_for

\* variant of the quiet test that asks for more than quiet_for
IsQuietStrict(now, last_change, quiet_for) == now - last_change > quiet_for

\* line 239: the quiet test
IsQuiet(now, last_change, quiet_for) == now - last_change >= quiet_for

\* lines 240 and 251: elapsed
Elapsed(now, start) == now - start

\* variant of _find_pane_by_index that does not look for the pane
FindPaneErrorWindowOnly(layout, window_index, pane_index) ==
    IF window_index \notin DOMAIN layout
    THEN "Window " \o ToString(window_index) \o " not found"
    ELSE None

\* lines 130-140: _find_pane_by_index, the error message or None
FindPaneError(layout, window_index, pane_index) ==
    IF window_index \notin DOMAIN layout
    THEN "Window " \o ToString(window_index) \o " not found"
    ELSE IF pane_index \notin layout[window_index]
    THEN "Pane " \o ToString(pane_index) \o " not found in window "
         \o ToString(window_index)
    ELSE None

\* lines 241-247
SuccessResult(elapsed) ==
    [status |-> "success", elapsed |-> elapsed,
     window_index |-> args.window_index, pane_index |-> args.pane_index,
     session |-> session_name]

\* variant of the timeout result that reports the timeout as an error
TimeoutResultAsError(elapsed) ==
    [status |-> "error", message |-> "timeout", code |-> "WAIT_IDLE_FAILED"]

\* lines 252-259
TimeoutResult(elapsed) ==
    [status |-> "timeout", elapsed |-> elapsed, timeout |-> args.timeout,
     window_index |-> args.window_index, pane_index |-> args.pane_index,
     session |-> session_name]

\* lines 220-224
NotFoundResult(message) ==
    [status |-> "error", message |-> message, code |-> "PANE_NOT_FOUND"]

\* lines 260-265
FailedResult(message) ==
    [status |-> "error", message |-> message, code |-> "WAIT_IDLE_FAILED"]

NoSessionMessage == "No tmux session available - please ensure at least one session exists"

-----------------------------------------------------------------------------
(* Initial state: a manager bound to a session (or to none), a pane showing *)
(* some content, and a wait_idle call about to start.                       *)

InitHist ==
    [lookups |-> 0, polls |-> 0, sleeps |-> 0, delay |-> 0,
     iterStart |-> NoTime, firstPollTime |-> NoTime, quietAt |-> NoTime,
     prevBlob |-> "", firstBlob |-> "",
     allSame |-> TRUE, everyChanged |-> TRUE, diffSinceChange |-> FALSE,
     fetchError |-> None, found |-> FALSE,
     requested |-> None, raised |-> None]

Init ==
    /\ session \in SessionNames \cup {None}
    /\ panes \in Layouts
    /\ screen \in Snapshots
    /\ clock = 0
    /\ pc = "call"
    /\ \E tm \in Timings, w \in WindowIdx, p \in PaneIdx :
          args = [op |-> "wait_idle", window_index |-> w, pane_index |-> p, timeout |-> tm.timeout,
                  quiet_for |-> tm.quiet_for, poll_interval |-> tm.poll_interval]
    /\ start_time = NoTime
    /\ last_content = ""
    /\ last_change_time = NoTime
    /\ current_content_str = ""
    /\ result = [status |-> "none"]
    /\ hist = InitHist
    /\ sessions = (IF session = None THEN <<>> ELSE <<session>>)
    /\ session_name = DefaultSessionName
    /\ muxlog = <<>>
    /\ calls = <<>>

-----------------------------------------------------------------------------
(* The call, statement by statement *)

\* lines 218-224 (with the session property, lines 39-44)
FindPane ==
    /\ pc = "call"
    /\ IF session = None
       THEN /\ result' = FailedResult(NoSessionMessage)
            /\ pc' = "done"
            /\ hist' = [hist EXCEPT !.lookups = @ + 1]
       ELSE LET error == FindPaneError(panes, args.window_index, args.pane_index)
            IN  IF error # None
                THEN /\ result' = NotFoundResult(error)
                     /\ pc' = "done"
                     /\ hist' = [hist EXCEPT !.lookups = @ + 1]
                ELSE /\ result' = result
                     /\ pc' = "begin"
                     /\ hist' = [hist EXCEPT !.lookups = @ + 1, !.found = TRUE]
    /\ UNCHANGED <<session, panes, screen, clock, args, start_time, last_content,
                   last_change_time, current_content_str>>
    /\ UNCHANGED <<sessions, session_name, muxlog, calls>>

\* lines 226-228
Begin ==
    /\ pc = "begin"
    /\ start_time' = clock
    /\ last_content' = ""
    /\ last_change_time' = clock
    /\ pc' = "loop"
    /\ UNCHANGED <<session, panes, screen, clock, args, current_content_str,
                   result, hist>>
    /\ UNCHANGED <<sessions, session_name, muxlog, calls>>

\* line 230
LoopTest ==
    /\ pc = "loop"
    /\ IF LoopCond(clock, start_time, args.timeout)
       THEN /\ pc' = "fetch"
            /\ hist' = [hist EXCEPT !.iterStart = clock]
       ELSE /\ pc' = "expired"
            /\ hist' = hist
    /\ UNCHANGED <<session, panes, screen, clock, args, start_time, last_content,
                   last_change_time, current_content_str, result>>
    /\ UNCHANGED <<sessions, session_name, muxlog, calls>>

\* variant of the fetch that sends an empty line to the pane before capturing
CaptureAfterKeys ==
    /\ pc = "fetch"
    /\ LET blob == ContentStr(screen)
       IN  /\ current_content_str' = blob
           /\ hist' = [hist EXCEPT
                 !.polls = @ + 1,
                 !.firstPollTime = IF hist.polls = 0 THEN clock ELSE @,
                 !.firstBlob = IF hist.polls = 0 THEN blob ELSE @,
                 !.allSame = @ /\ (hist.polls = 0 \/ blob = hist.firstBlob),
                 !.everyChanged = @ /\ blob # hist.prevBlob,
                 !.diffSinceChange = @ \/ blob # last_content,
                 !.prevBlob = blob]
    /\ muxlog' = Append(muxlog, MuxCall("send_keys", args.window_index,
                                        args.pane_index, "", TRUE))
    /\ pc' = "compare"
    /\ UNCHANGED <<session, panes, screen, clock, args, start_time, last_content,
                   last_change_time, result>>
    /\ UNCHANGED <<sessions, session_name, calls>>

\* lines 231-234: the snapshot is fetched and joined
Capture ==
    /\ pc = "fetch"
    /\ LET blob == ContentStr(screen)
       IN  /\ current_content_str' = blob
           /\ hist' = [hist EXCEPT
                 !.polls = @ + 1,
                 !.firstPollTime = IF hist.polls = 0 THEN clock ELSE @,
                 !.firstBlob = IF hist.polls = 0 THEN blob ELSE @,
                 !.allSame = @ /\ (hist.polls = 0 \/ blob = hist.firstBlob),
                 !.everyChanged = @ /\ blob # hist.prevBlob,
                 !.diffSinceChange = @ \/ blob # last_content,
                 !.prevBlob = blob]
    /\ pc' = "compare"
    /\ UNCHANGED <<session, panes, screen, clock, args, start_time, last_content,
                   last_change_time, result>>
    /\ UNCHANGED <<sessions, session_name, muxlog, calls>>

\* variant of a failing fetch that is taken for "no output" and polled again
CaptureFailsSwallowed ==
    /\ pc = "fetch"
    /\ \E message \in FetchErrors :
          hist' = [hist EXCEPT !.fetchError = message]
    /\ current_content_str' = ""
    /\ pc' = "compare"
    /\ UNCHANGED <<session, panes, screen, clock, args, start_time, last_content,
                   last_change_time, result>>
    /\ UNCHANGED <<sessions, session_name, muxlog, calls>>

\* line 231 raising: caught at line 260
CaptureFails ==
    /\ pc = "fetch"
    /\ \E message \in FetchErrors :
          /\ result' = FailedResult(message)
          /\ hist' = [hist EXCEPT !.fetchError = message]
    /\ pc' = "done"
    /\ UNCHANGED <<session, panes, screen, clock, args, start_time, last_content,
                   last_change_time, current_content_str>>
    /\ UNCHANGED <<sessions, session_name, muxlog, calls>>

\* variant of lines 236-239 in which a change does not restart the quiet clock
CompareNoRestart ==
    /\ pc = "compare"
    /\ IF ContentChanged(current_content_str, last_content)
       THEN /\ last_content' = current_content_str
            /\ last_change_time' = last_change_time
            /\ pc' = "sleep"
            /\ hist' = [hist EXCEPT !.diffSinceChange = FALSE]
       ELSE /\ IF IsQuiet(clock, last_change_time, args.quiet_for)
               THEN /\ pc' = "idle"
                    /\ hist' = [hist EXCEPT !.quietAt = clock]
               ELSE /\ pc' = "sleep"
                    /\ hist' = hist
            /\ UNCHANGED <<last_content, last_change_time>>
    /\ UNCHANGED <<session, panes, screen, clock, args, start_time,
                   current_content_str, result>>
    /\ UNCHANGED <<sessions, session_name, muxlog, calls>>

\* variant of lines 236-239 in which every poll restarts the quiet clock
CompareAlwaysRestart ==
    /\ pc = "compare"
    /\ IF ContentChanged(current_content_str, last_content)
       THEN /\ last_content' = current_content_str
            /\ last_change_time' = clock
            /\ pc' = "sleep"
            /\ hist' = [hist EXCEPT !.diffSinceChange = FALSE]
       ELSE /\ IF IsQuiet(clock, last_change_time, args.quiet_for)
               THEN /\ pc' = "idle"
                    /\ hist' = [hist EXCEPT !.quietAt = clock]
                    /\ last_change_time' = last_change_time
               ELSE /\ pc' = "sleep"
                    /\ hist' = hist
                    /\ last_change_time' = clock
            /\ UNCHANGED last_content
    /\ UNCHANGED <<session, panes, screen, clock, args, start_time,
                   current_content_str, result>>
    /\ UNCHANGED <<sessions, session_name, muxlog, calls>>

\* lines 236-239
Compare ==
    /\ pc = "compare"
    /\ IF ContentChanged(current_content_str, last_content)
       THEN /\ last_content' = current_content_str
            /\ last_change_time' = clock
            /\ pc' = "sleep"
            /\ hist' = [hist EXCEPT !.diffSinceChange = FALSE]
       ELSE /\ IF IsQuiet(clock, last_change_time, args.quiet_for)
               THEN /\ pc' = "idle"
                    /\ hist' = [hist EXCEPT !.quietAt = clock]
               ELSE /\ pc' = "sleep"
                    /\ hist' = hist
            /\ UNCHANGED <<last_content, last_change_time>>
    /\ UNCHANGED <<session, panes, screen, clock, args, start_time,
                   current_content_str, result>>
    /\ UNCHANGED <<sessions, session_name, muxlog, calls>>

\* lines 240-247
ReturnSuccess ==
    /\ pc = "idle"
    /\ result' = SuccessResult(Elapsed(clock, start_time))
    /\ pc' = "done"
    /\ UNCHANGED <<session, panes, screen, clock, args, start_time, last_content,
                   last_change_time, current_content_str, hist>>
    /\ UNCHANGED <<sessions, session_name, muxlog, calls>>

\* variant of the sleep that never returns
SleepNeverReturns ==
    /\ pc = "sleep"
    /\ pc' = "sleep"
    /\ UNCHANGED <<session, panes, screen, clock, args, start_time,
                   last_content, last_change_time, current_content_str,
                   result, hist>>
    /\ UNCHANGED <<sessions, session_name, muxlog, calls>>

\* line 249
Sleep ==
    /\ pc = "sleep"
    /\ clock' = clock + args.poll_interval
    /\ pc' = "loop"
    /\ hist' = [hist EXCEPT !.sleeps = @ + 1]
    /\ UNCHANGED <<session, panes, screen, args, start_time, last_content,
                   last_change_time, current_content_str, result>>
    /\ UNCHANGED <<sessions, session_name, muxlog, calls>>

\* lines 251-259
ReturnTimeout ==
    /\ pc = "expired"
    /\ result' = TimeoutResult(Elapsed(clock, start_time))
    /\ pc' = "done"
    /\ UNCHANGED <<session, panes, screen, clock, args, start_time, last_content,
                   last_change_time, current_content_str, hist>>
    /\ UNCHANGED <<sessions, session_name, muxlog, calls>>

-----------------------------------------------------------------------------
(* The environment *)

\* time passes while the call is blocked outside its own code: in the lookup
\* (find_where), in capture_pane, and in time.sleep beyond the requested
\* interval; hist.delay is the total of it
Tick ==
    /\ pc \in {"call", "fetch", "sleep"}
    /\ hist.delay < MaxDelay
    /\ clock' = clock + 1
    /\ hist' = [hist EXCEPT !.delay = @ + 1]
    /\ UNCHANGED <<session, panes, screen, pc, args, start_time, last_content,
                   last_change_time, current_content_str, result>>
    /\ UNCHANGED <<sessions, session_name, muxlog, calls>>

\* the program running in the pane writes to it
PaneOutput ==
    /\ pc # "done"
    /\ \E s \in Snapshots \ {screen} : screen' = s
    /\ UNCHANGED <<session, panes, clock, pc, args, start_time, last_content,
                   last_change_time, current_content_str, result, hist>>
    /\ UNCHANGED <<sessions, session_name, muxlog, calls>>

Next ==
    \/ FindPane
    \/ Begin
    \/ LoopTest
    \/ Capture
    \/ CaptureFails
    \/ Compare
    \/ ReturnSuccess
    \/ Sleep
    \/ ReturnTimeout
    \/ Tick
    \/ PaneOutput

Spec == Init /\ [][Next]_vars

\* a statement of the call: the interpreter runs the next statement, and each
\* fetch and each sleep returns
WaitStep ==
    \/ FindPane
    \/ Begin
    \/ LoopTest
    \/ Capture
    \/ CaptureFails
    \/ Compare
    \/ ReturnSuccess
    \/ Sleep
    \/ ReturnTimeout

\* the call under a scheduler that keeps running it
SpecFair == Init /\ [][Next]_vars /\ WF_vars(WaitStep)

-----------------------------------------------------------------------------
(* Scenario 1: timeout=5, quiet_for=1, poll_interval=0.2, counted in ticks  *)
(* of 0.2 seconds, on a pane that shows "abc" throughout and whose fetches  *)
(* do not fail.                                                             *)

InitScenario1 ==
    /\ session \in SessionNames
    /\ panes = [w \in {0} |-> {0}]
    /\ screen = Lines(<<"abc">>)
    /\ clock = 0
    /\ pc = "call"
    /\ args = [window_index |-> 0, pane_index |-> 0, timeout |-> 25,
               quiet_for |-> 5, poll_interval |-> 1]
    /\ start_time = NoTime
    /\ last_content = ""
    /\ last_change_time = NoTime
    /\ current_content_str = ""
    /\ result = [status |-> "none"]
    /\ hist = InitHist
    /\ sessions = (IF session = None THEN <<>> ELSE <<session>>)
    /\ session_name = DefaultSessionName
    /\ muxlog = <<>>
    /\ calls = <<>>

NextScenario1 ==
    \/ FindPane
    \/ Begin
    \/ LoopTest
    \/ Capture
    \/ Compare
    \/ ReturnSuccess
    \/ Sleep
    \/ Tick

SpecScenario1 == InitScenario1 /\ [][NextScenario1]_vars

-----------------------------------------------------------------------------
(* The manager and its operations: a TmuxManager is constructed against the *)
(* server's sessions and then one operation is called on it.  `panes` is    *)
(* the layout of the session the manager is bound to; a window or pane      *)
(* that tmux creates gets the lowest free index.                            *)

\* server.list_sessions() at construction
ServerSessions ==
    { <<>>, <<"claude-dev">>, <<"other">>, <<"other", "claude-dev">>,
      <<"other", "work">> }

\* the session_name argument (cli.py --session, default 'claude-dev')
RequestedNames == {"claude-dev", "work"}

\* the layouts of a session: every window has at least one pane
SessionLayouts ==
    UNION { [W -> (SUBSET PaneIdx) \ {{}}] : W \in SUBSET WindowIdx }

\* str(e) of an exception raised by a libtmux call
MuxErrors == {"tmux: command failed"}

SeqRange(seq) == { seq[i] : i \in 1..Len(seq) }

\* variant of the constructor that keeps the requested name when it falls back
\* to the first session
BindSessionKeepName(list, requested) ==
    LET matching == { i \in 1..Len(list) : list[i] = requested }
    IN  IF matching # {}
        THEN [session |-> list[CHOOSE i \in matching :
                                  \A j \in matching : i <= j],
              session_name |-> requested]
        ELSE IF list # <<>>
        THEN [session |-> list[1], session_name |-> requested]
        ELSE [session |-> None, session_name |-> requested]

\* lines 20-36: the first session with the requested name, else the first
\* session (and its name), else no session
BindSession(list, requested) ==
    LET matching == { i \in 1..Len(list) : list[i] = requested }
    IN  IF matching # {}
        THEN [session |-> list[CHOOSE i \in matching :
                                  \A j \in matching : i <= j],
              session_name |-> requested]
        ELSE IF list # <<>>
        THEN [session |-> list[1], session_name |-> list[1]]
        ELSE [session |-> None, session_name |-> requested]

\* variant of the except clauses that reports one code for every operation
ErrorResultOneCode(message, code) ==
    [status |-> "error", message |-> message, code |-> "OPERATION_FAILED"]

\* the except clause of an operation: str(e) and the operation's code
ErrorResult(message, code) ==
    [status |-> "error", message |-> message, code |-> code]

InitOps ==
    /\ sessions \in ServerSessions
    /\ panes \in (IF sessions = <<>> THEN {[w \in {} |-> {}]}
                  ELSE SessionLayouts)
    /\ screen \in Snapshots
    /\ session = None
    /\ session_name = None
    /\ clock = 0
    /\ pc = "new"
    /\ args = [op |-> "none"]
    /\ start_time = NoTime
    /\ last_content = ""
    /\ last_change_time = NoTime
    /\ current_content_str = ""
    /\ result = [status |-> "none"]
    /\ hist = InitHist
    /\ muxlog = <<>>
    /\ calls = <<>>

\* lines 18-36: TmuxManager(session_name=...)
Construct ==
    /\ pc = "new"
    /\ \E requested \in RequestedNames :
          LET bound == BindSession(sessions, requested)
          IN  /\ session' = bound.session
              /\ session_name' = bound.session_name
              /\ hist' = [hist EXCEPT !.requested = requested]
    /\ pc' = "ready"
    /\ UNCHANGED <<panes, screen, clock, args, start_time, last_content,
                   last_change_time, current_content_str, result, sessions,
                   muxlog, calls>>

\* what an operation that returns at once leaves alone
ReturnsAtOnce ==
    /\ pc' = "done"
    /\ UNCHANGED <<session, screen, clock, start_time, last_content,
                   last_change_time, current_content_str, sessions,
                   session_name, calls>>

\* the end of an operation that returns at once: its arguments, the returned
\* dict, what it asked of tmux, the layout it leaves, and what was raised
Return(a, res, log, layout, raised) ==
    /\ args' = a
    /\ result' = res
    /\ muxlog' = log
    /\ panes' = layout
    /\ hist' = [hist EXCEPT !.raised = raised]
    /\ ReturnsAtOnce

\* where a libtmux call of an operation raises: nowhere, in the lookup
\* (find_where, window.panes), or in the call that does the work
Faults == {"none", "lookup", "call"}

\* the command argument of send_command
Commands == {"ls", "make test"}

\* variant of the CLI's enter flag that passes --no-enter on as enter
CliEnterSame(no_enter) == no_enter

\* commands.py line 78: enter=not no_enter
CliEnter(no_enter) == ~no_enter

\* lines 142-173
SendCommand ==
    /\ pc = "ready"
    /\ \E w \in WindowIdx, p \in PaneIdx, command \in Commands,
          no_enter \in BOOLEAN, fault \in Faults, e \in MuxErrors :
          LET enter == CliEnter(no_enter)
              a == [op |-> "send_command", window_index |-> w,
                    pane_index |-> p, command |-> command,
                    no_enter |-> no_enter, enter |-> enter]
              error == FindPaneError(panes, w, p)
          IN  IF session = None
              THEN Return(a, ErrorResult(NoSessionMessage, "SEND_COMMAND_FAILED"),
                          muxlog, panes, NoSessionMessage)
              ELSE IF fault = "lookup"
              THEN Return(a, ErrorResult(e, "SEND_COMMAND_FAILED"),
                          muxlog, panes, e)
              ELSE IF error # None
              THEN Return(a, ErrorResult(error, "PANE_NOT_FOUND"),
                          muxlog, panes, None)
              ELSE IF fault = "call"
              THEN Return(a, ErrorResult(e, "SEND_COMMAND_FAILED"),
                          muxlog, panes, e)
              ELSE Return(a,
                          [status |-> "success", command |-> command,
                           window_index |-> w, pane_index |-> p,
                           session |-> session_name],
                          Append(muxlog, MuxCall("send_keys", w, p, command,
                                                 enter)),
                          panes, None)

Max(a, b) == IF a >= b THEN a ELSE b
Min(a, b) == IF a <= b THEN a ELSE b

\* Python's seq[start:] for a list
PySliceFrom(seq, start) ==
    LET n == Len(seq)
        from == IF start < 0 THEN Max(n + start, 0) ELSE Min(start, n)
    IN  SubSeq(seq, from + 1, n)

\* lines 194-195: result[-lines:] when len(result) > lines
LastLines(captured, lines) ==
    IF Len(captured) > lines THEN PySliceFrom(captured, -lines) ELSE captured

\* the --lines argument of capture_pane
LinesArgs == 0..MaxLines

\* lines 175-212
CapturePane ==
    /\ pc = "ready"
    /\ \E w \in WindowIdx, p \in PaneIdx, lines \in LinesArgs,
          fault \in Faults, e \in MuxErrors :
          LET a == [op |-> "capture_pane", window_index |-> w,
                    pane_index |-> p, lines |-> lines]
              error == FindPaneError(panes, w, p)
              captured == IF screen = NoCapture THEN <<>> ELSE screen.lines
              kept == LastLines(captured, lines)
              output == IF kept # <<>> THEN JoinLines(kept) ELSE ""
          IN  IF session = None
              THEN Return(a, ErrorResult(NoSessionMessage, "CAPTURE_PANE_FAILED"),
                          muxlog, panes, NoSessionMessage)
              ELSE IF fault = "lookup"
              THEN Return(a, ErrorResult(e, "CAPTURE_PANE_FAILED"),
                          muxlog, panes, e)
              ELSE IF error # None
              THEN Return(a, ErrorResult(error, "PANE_NOT_FOUND"),
                          muxlog, panes, None)
              ELSE IF fault = "call"
              THEN Return(a, ErrorResult(e, "CAPTURE_PANE_FAILED"),
                          muxlog, panes, e)
              ELSE Return(a,
                          [status |-> "success", content |-> output,
                           lines |-> Len(kept), window_index |-> w,
                           pane_index |-> p, session |-> session_name],
                          muxlog, panes, None)

\* Python's truth value of an optional string: neither None nor ""
TruthyNotNone(command) == command # None

Truthy(command) == command # None /\ command # ""

\* the lowest index not in use (tmux numbers a new window or pane with it)
LowestFree(used, indices) ==
    CHOOSE i \in indices \ used : \A j \in indices \ used : i <= j

WindowNames == {"build"}
Shells == {"/bin/bash"}
OptionalCommands == {None, "", "ls"}
NoPaneMessage == "No attached pane found in new window"

\* where create_window may fail: new_window raises, the new window has no
\* attached pane, send_keys of the shell raises, send_keys of the command raises
CreateWindowFaults == {"none", "new_window", "no_pane", "shell", "command"}

\* lines 46-89 (the 0.2 s pause of line 64 is shorter than a tick of the clock;
\* inside_tmux, read from the environment, is left out of the result)
CreateWindow ==
    /\ pc = "ready"
    /\ session # None => WindowIdx \ DOMAIN panes # {}
    /\ \E window_name \in WindowNames, command \in OptionalCommands,
          shell \in Shells, fault \in CreateWindowFaults, e \in MuxErrors :
          LET a == [op |-> "create_window", window_name |-> window_name,
                    command |-> command, shell |-> shell]
              code == "CREATE_WINDOW_FAILED"
              w == LowestFree(DOMAIN panes, WindowIdx)
              created == [x \in DOMAIN panes \cup {w} |->
                             IF x = w THEN {0} ELSE panes[x]]
              log1 == Append(muxlog,
                             MuxCall("new_window", w, 0, window_name, FALSE))
              log2 == Append(log1, MuxCall("send_keys", w, 0, shell, TRUE))
              log3 == Append(log2, MuxCall("send_keys", w, 0, command, TRUE))
          IN  IF session = None
              THEN Return(a, ErrorResult(NoSessionMessage, code), muxlog,
                          panes, NoSessionMessage)
              ELSE IF fault = "new_window"
              THEN Return(a, ErrorResult(e, code), muxlog, panes, e)
              ELSE IF fault = "no_pane"
              THEN Return(a, ErrorResult(NoPaneMessage, code), log1, created,
                          NoPaneMessage)
              ELSE IF fault = "shell"
              THEN Return(a, ErrorResult(e, code), log1, created, e)
              ELSE IF Truthy(command) /\ fault = "command"
              THEN Return(a, ErrorResult(e, code), log2, created, e)
              ELSE Return(a,
                          [status |-> "success",
                           window_id |-> [session |-> session, index |-> w],
                           window_index |-> w,
                           pane_id |-> [window |-> w, pane |-> 0],
                           name |-> window_name, session |-> session_name],
                          IF Truthy(command) THEN log3 ELSE log2,
                          created, None)

\* where create_pane may fail: find_where raises, split_window raises,
\* send_keys of the command raises
CreatePaneFaults == {"none", "lookup", "split", "send"}

\* lines 91-128
CreatePane ==
    /\ pc = "ready"
    /\ \E w \in WindowIdx, vertical \in BOOLEAN, command \in OptionalCommands,
          fault \in CreatePaneFaults, e \in MuxErrors :
          LET a == [op |-> "create_pane", window_index |-> w,
                    vertical |-> vertical, command |-> command]
              code == "CREATE_PANE_FAILED"
              orientation == IF vertical THEN "vertical" ELSE "horizontal"
              p == LowestFree(panes[w], PaneIdx)
              split == [panes EXCEPT ![w] = @ \cup {p}]
              log1 == Append(muxlog,
                             MuxCall("split_window", w, p, orientation, FALSE))
              log2 == Append(log1, MuxCall("send_keys", w, p, command, TRUE))
          IN  /\ (session # None /\ w \in DOMAIN panes) =>
                     PaneIdx \ panes[w] # {}
              /\ IF session = None
                 THEN Return(a, ErrorResult(NoSessionMessage, code), muxlog,
                             panes, NoSessionMessage)
                 ELSE IF fault = "lookup"
                 THEN Return(a, ErrorResult(e, code), muxlog, panes, e)
                 ELSE IF w \notin DOMAIN panes
                 THEN Return(a,
                             ErrorResult("Window " \o ToString(w) \o " not found",
                                         "WINDOW_NOT_FOUND"),
                             muxlog, panes, None)
                 ELSE IF fault = "split"
                 THEN Return(a, ErrorResult(e, code), muxlog, panes, e)
                 ELSE IF Truthy(command) /\ fault = "send"
                 THEN Return(a, ErrorResult(e, code), log1, split, e)
                 ELSE Return(a,
                             [status |-> "success",
                              pane_id |-> [window |-> w, pane |-> p],
                              window_index |-> w, orientation |-> orientation,
                              session |-> session_name],
                             IF Truthy(command) THEN log2 ELSE log1,
                             split, None)

\* the members of a set of indices in increasing order, as tmux lists them
RECURSIVE Ascending(_)
Ascending(S) ==
    IF S = {} THEN <<>>
    ELSE LET least == CHOOSE i \in S : \A j \in S : i <= j
         IN  <<least>> \o Ascending(S \ {least})

\* lines 271-279 (id, attached and windows of a session are left out)
SessionList(list) == [i \in 1..Len(list) |-> [name |-> list[i]]]

\* lines 267-290: asks the server, never the bound session
ListSessions ==
    /\ pc = "ready"
    /\ \E fault \in {"none", "call"}, e \in MuxErrors :
          LET a == [op |-> "list_sessions"]
          IN  IF fault = "call"
              THEN Return(a, ErrorResult(e, "LIST_SESSIONS_FAILED"), muxlog,
                          panes, e)
              ELSE Return(a, [status |-> "success",
                              sessions |-> SessionList(sessions)],
                          muxlog, panes, None)

\* the session_name argument of list_windows
ListWindowsNames == {None, "claude-dev", "other", "work"}

\* the windows of a session other than the bound one
OtherLayout == [w \in {0} |-> {0}]

\* lines 303-312 (name and active of a window are left out)
WindowList(layout) ==
    LET order == Ascending(DOMAIN layout)
    IN  [i \in 1..Len(order) |->
            [index |-> order[i], panes |-> Cardinality(layout[order[i]])]]

\* lines 292-324
ListWindows ==
    /\ pc = "ready"
    /\ \E name \in ListWindowsNames, fault \in Faults, e \in MuxErrors :
          LET a == [op |-> "list_windows", session_name |-> name]
              code == "LIST_WINDOWS_FAILED"
              own == name = None \/ name = session_name
              found == own \/ name \in SeqRange(sessions)
              target == IF own THEN session ELSE name
              layout == IF target = session THEN panes ELSE OtherLayout
          IN  IF own /\ session = None
              THEN Return(a, ErrorResult(NoSessionMessage, code), muxlog,
                          panes, NoSessionMessage)
              ELSE IF ~own /\ fault = "lookup"
              THEN Return(a, ErrorResult(e, code), muxlog, panes, e)
              ELSE IF ~found
              THEN Return(a,
                          ErrorResult("Session " \o name \o " not found",
                                      "SESSION_NOT_FOUND"),
                          muxlog, panes, None)
              ELSE IF fault = "call"
              THEN Return(a, ErrorResult(e, code), muxlog, panes, e)
              ELSE Return(a, [status |-> "success", session |-> target,
                              windows |-> WindowList(layout)],
                          muxlog, panes, None)

\* lines 337-347 (id, active, height and width of a pane are left out)
PaneList(indices) ==
    LET order == Ascending(indices)
    IN  [i \in 1..Len(order) |-> [index |-> order[i]]]

\* lines 326-359
ListPanes ==
    /\ pc = "ready"
    /\ \E w \in WindowIdx, fault \in Faults, e \in MuxErrors :
          LET a == [op |-> "list_panes", window_index |-> w]
              code == "LIST_PANES_FAILED"
          IN  IF session = None
              THEN Return(a, ErrorResult(NoSessionMessage, code), muxlog,
                          panes, NoSessionMessage)
              ELSE IF fault = "lookup"
              THEN Return(a, ErrorResult(e, code), muxlog, panes, e)
              ELSE IF w \notin DOMAIN panes
              THEN Return(a,
                          ErrorResult("Window " \o ToString(w) \o " not found",
                                      "WINDOW_NOT_FOUND"),
                          muxlog, panes, None)
              ELSE IF fault = "call"
              THEN Return(a, ErrorResult(e, code), muxlog, panes, e)
              ELSE Return(a, [status |-> "success", window_index |-> w,
                              panes |-> PaneList(panes[w])],
                          muxlog, panes, None)

\* the session's layout once tmux has killed window w
WithoutWindow(layout, w) == [x \in DOMAIN layout \ {w} |-> layout[x]]

\* variant of kill_pane whose kill takes the pane's whole window
WithoutPaneWholeWindow(layout, w, p) == WithoutWindow(layout, w)

\* the session's layout once tmux has killed pane p of window w: a window
\* closes with its last pane
WithoutPane(layout, w, p) ==
    IF layout[w] = {p}
    THEN WithoutWindow(layout, w)
    ELSE [layout EXCEPT ![w] = @ \ {p}]

\* lines 361-384
KillWindow ==
    /\ pc = "ready"
    /\ \E w \in WindowIdx, fault \in Faults, e \in MuxErrors :
          LET a == [op |-> "kill_window", window_index |-> w]
              code == "KILL_WINDOW_FAILED"
          IN  IF session = None
              THEN Return(a, ErrorResult(NoSessionMessage, code), muxlog,
                          panes, NoSessionMessage)
              ELSE IF fault = "lookup"
              THEN Return(a, ErrorResult(e, code), muxlog, panes, e)
              ELSE IF w \notin DOMAIN panes
              THEN Return(a,
                          ErrorResult("Window " \o ToString(w) \o " not found",
                                      "WINDOW_NOT_FOUND"),
                          muxlog, panes, None)
              ELSE IF fault = "call"
              THEN Return(a, ErrorResult(e, code), muxlog, panes, e)
              ELSE Return(a, [status |-> "success", window_index |-> w,
                              session |-> session_name],
                          Append(muxlog, MuxCall("kill_window", w, 0, "", FALSE)),
                          WithoutWindow(panes, w), None)

\* lines 386-424
KillPane ==
    /\ pc = "ready"
    /\ \E w \in WindowIdx, p \in PaneIdx, fault \in Faults, e \in MuxErrors :
          LET a == [op |-> "kill_pane", window_index |-> w, pane_index |-> p]
              code == "KILL_PANE_FAILED"
          IN  IF session = None
              THEN Return(a, ErrorResult(NoSessionMessage, code), muxlog,
                          panes, NoSessionMessage)
              ELSE IF fault = "lookup"
              THEN Return(a, ErrorResult(e, code), muxlog, panes, e)
              ELSE IF w \notin DOMAIN panes
              THEN Return(a,
                          ErrorResult("Window " \o ToString(w) \o " not found",
                                      "WINDOW_NOT_FOUND"),
                          muxlog, panes, None)
              ELSE IF p \notin panes[w]
              THEN Return(a,
                          ErrorResult("Pane " \o ToString(p)
                                          \o " not found in window "
                                          \o ToString(w),
                                      "PANE_NOT_FOUND"),
                          muxlog, panes, None)
              ELSE IF fault = "call"
              THEN Return(a, ErrorResult(e, code), muxlog, panes, e)
              ELSE Return(a, [status |-> "success", window_index |-> w,
                              pane_index |-> p, session |-> session_name],
                          Append(muxlog, MuxCall("kill_pane", w, p, "", FALSE)),
                          WithoutPane(panes, w, p), None)

\* the timings of the wait_idle calls made on a constructed manager
OpsTimings ==
    { [timeout |-> t, quiet_for |-> 1, poll_interval |-> 1] : t \in 1..2 }

\* lines 214-215: wait_idle is entered; its statements are the steps FindPane
\* to ReturnTimeout
WaitIdle ==
    /\ pc = "ready"
    /\ \E tm \in OpsTimings, w \in WindowIdx, p \in PaneIdx :
          args' = [op |-> "wait_idle", window_index |-> w, pane_index |-> p,
                   timeout |-> tm.timeout, quiet_for |-> tm.quiet_for,
                   poll_interval |-> tm.poll_interval]
    /\ pc' = "call"
    /\ UNCHANGED <<session, panes, screen, clock, start_time, last_content,
                   last_change_time, current_content_str, result, hist,
                   sessions, session_name, muxlog, calls>>

NextOps ==
    \/ Construct
    \/ CreateWindow
    \/ CreatePane
    \/ SendCommand
    \/ CapturePane
    \/ ListSessions
    \/ ListWindows
    \/ ListPanes
    \/ KillWindow
    \/ KillPane
    \/ WaitIdle
    \/ FindPane
    \/ Begin
    \/ LoopTest
    \/ Capture
    \/ CaptureFails
    \/ Compare
    \/ ReturnSuccess
    \/ Sleep
    \/ ReturnTimeout
    \/ Tick

SpecOps == InitOps /\ [][NextOps]_vars

-----------------------------------------------------------------------------
(* Two wait_idle calls on the same pane at the same time, each with its own  *)
(* local variables (lines 226-228), sharing only the pane and the clock.     *)

MaxClockTwo == 3

CallIds == 1..2

TwoTimings ==
    { [timeout |-> 2, quiet_for |-> 1, poll_interval |-> 1] }

\* the frame of a call on entry: its arguments and its local variables
InitCall(tm) ==
    [timeout |-> tm.timeout, quiet_for |-> tm.quiet_for,
     poll_interval |-> tm.poll_interval,
     pc |-> "call", start_time |-> NoTime, last_content |-> "",
     last_change_time |-> NoTime, current_content_str |-> "",
     result |-> [status |-> "none"], wake |-> NoTime, obs |-> <<>>]

\* what a statement reads of the world: the clock, and for the lookup and the
\* fetch what tmux answers
Observation(kind, time, content) ==
    [kind |-> kind, time |-> time, content |-> content]

\* lines 218-259: the statement at c.pc run on frame c, reading ob
LocalStep(c, ob) ==
    LET seen == [c EXCEPT !.obs = Append(@, ob)]
        common == [window_index |-> args.window_index,
                   pane_index |-> args.pane_index, session |-> session_name]
    IN  CASE c.pc = "call" ->
               IF ob.content # None
               THEN [seen EXCEPT !.pc = "done",
                                 !.result = NotFoundResult(ob.content)]
               ELSE [seen EXCEPT !.pc = "begin"]
          [] c.pc = "begin" ->
               [seen EXCEPT !.pc = "loop", !.start_time = ob.time,
                            !.last_content = "", !.last_change_time = ob.time]
          [] c.pc = "loop" ->
               IF LoopCond(ob.time, c.start_time, c.timeout)
               THEN [seen EXCEPT !.pc = "fetch"]
               ELSE [seen EXCEPT !.pc = "expired"]
          [] c.pc = "fetch" ->
               IF ob.kind = "raise"
               THEN [seen EXCEPT !.pc = "done",
                                 !.result = FailedResult(ob.content)]
               ELSE [seen EXCEPT !.pc = "compare",
                                 !.current_content_str = ob.content]
          [] c.pc = "compare" ->
               IF ContentChanged(c.current_content_str, c.last_content)
               THEN [seen EXCEPT !.pc = "sleep",
                                 !.last_content = c.current_content_str,
                                 !.last_change_time = ob.time]
               ELSE IF IsQuiet(ob.time, c.last_change_time, c.quiet_for)
               THEN [seen EXCEPT !.pc = "idle"]
               ELSE [seen EXCEPT !.pc = "sleep"]
          [] c.pc = "idle" ->
               [seen EXCEPT !.pc = "done",
                            !.result = [status |-> "success",
                                        elapsed |-> Elapsed(ob.time, c.start_time),
                                        window_index |-> common.window_index,
                                        pane_index |-> common.pane_index,
                                        session |-> common.session]]
          [] c.pc = "sleep" ->
               [seen EXCEPT !.pc = "sleeping",
                            !.wake = ob.time + c.poll_interval]
          [] c.pc = "sleeping" ->
               [seen EXCEPT !.pc = "loop"]
          [] c.pc = "expired" ->
               [seen EXCEPT !.pc = "done",
                            !.result = [status |-> "timeout",
                                        elapsed |-> Elapsed(ob.time, c.start_time),
                                        timeout |-> c.timeout,
                                        window_index |-> common.window_index,
                                        pane_index |-> common.pane_index,
                                        session |-> common.session]]

\* str(e) of a fetch that raises while the two calls run
TwoFetchErrors == {"server exited"}

\* what the statement at c.pc may read now: the lookup and the fetch read what
\* tmux answers, waking up reads nothing, the others read the clock
Observations(c) ==
    CASE c.pc = "call" ->
           { Observation("call", NoTime,
                         FindPaneError(panes, args.window_index,
                                       args.pane_index)) }
      [] c.pc = "fetch" ->
           { Observation("fetch", NoTime, ContentStr(screen)) }
           \cup { Observation("raise", NoTime, m) : m \in TwoFetchErrors }
      [] c.pc = "sleeping" -> { Observation("sleeping", NoTime, "") }
      [] OTHER -> { Observation(c.pc, clock, "") }

TwoUnchanged ==
    UNCHANGED <<session, panes, args, pc, start_time, last_content,
                last_change_time, current_content_str, result, hist, sessions,
                session_name, muxlog>>

\* what the pane shows while the two calls run
TwoSnapshots == { Lines(<<"abc">>), Lines(<<"abc", "$">>) }

InitTwo ==
    /\ session = DefaultSessionName
    /\ sessions = <<DefaultSessionName>>
    /\ session_name = DefaultSessionName
    /\ panes \in Layouts
    /\ screen \in TwoSnapshots
    /\ clock = 0
    /\ pc = "two"
    /\ args = [op |-> "wait_idle", window_index |-> 0, pane_index |-> 0]
    /\ start_time = NoTime
    /\ last_content = ""
    /\ last_change_time = NoTime
    /\ current_content_str = ""
    /\ result = [status |-> "none"]
    /\ hist = InitHist
    /\ muxlog = <<>>
    /\ calls \in [CallIds -> { InitCall(tm) : tm \in TwoTimings }]

\* a call may run its next statement; a sleeping call only once its time is up
Runnable(c) ==
    /\ c.pc # "done"
    /\ (c.pc = "sleeping") => clock >= c.wake

\* variant in which last_content and last_change_time are attributes of the
\* manager, shared by the calls
CallStepShared(i) ==
    /\ Runnable(calls[i])
    /\ \E ob \in Observations(calls[i]) :
          LET stepped == LocalStep(calls[i], ob)
          IN  calls' = [j \in CallIds |->
                  IF j = i THEN stepped
                  ELSE [calls[j] EXCEPT
                          !.last_content = stepped.last_content,
                          !.last_change_time = stepped.last_change_time]]
    /\ UNCHANGED <<clock, screen>>
    /\ TwoUnchanged

\* call i runs its next statement on its own frame
CallStep(i) ==
    /\ Runnable(calls[i])
    /\ \E ob \in Observations(calls[i]) :
          calls' = [calls EXCEPT ![i] = LocalStep(@, ob)]
    /\ UNCHANGED <<clock, screen>>
    /\ TwoUnchanged

\* time passes
TickTwo ==
    /\ clock < MaxClockTwo
    /\ clock' = clock + 1
    /\ UNCHANGED <<screen, calls>>
    /\ TwoUnchanged

\* the program running in the pane writes to it
PaneOutputTwo ==
    /\ \E i \in CallIds : calls[i].pc # "done"
    /\ \E shown \in TwoSnapshots \ {screen} : screen' = shown
    /\ UNCHANGED <<clock, calls>>
    /\ TwoUnchanged

NextTwo ==
    \/ \E i \in CallIds : CallStep(i)
    \/ TickTwo
    \/ PaneOutputTwo

SpecTwo == InitTwo /\ [][NextTwo]_vars

-----------------------------------------------------------------------------
(* Properties of wait_idle *)

Done == pc = "done"

\* the pane was resolved and no fetch failed
Polled == hist.found /\ hist.fetchError = None

\* the target of the call is not in the session
Unresolved ==
    \/ args.window_index \notin DOMAIN panes
    \/ args.pane_index \notin panes[args.window_index]

\* C1: success is returned only when the quiet test held: at the return the
\* clock is at least quiet_for past last_change_time, no poll since
\* last_change_time fetched a snapshot different from last_content, and the
\* reported elapsed is the clock minus start_time.
C1_SuccessOnlyWhenQuiet ==
    result.status = "success" =>
        /\ clock - last_change_time >= args.quiet_for
        /\ ~hist.diffSinceChange
        /\ last_content = hist.prevBlob
        /\ result.elapsed = clock - start_time

C1_Witness ==
    /\ result.status = "success"
    /\ hist.polls >= 3
    /\ last_change_time > start_time
    /\ start_time > 0

\* C2 as stated: when every poll of a call fetched the same blob and the call
\* lasted at least quiet_for from its first poll (the blob repeated for
\* quiet_for), the call returned success with elapsed >= quiet_for.
C2_Original ==
    ( /\ Done /\ Polled /\ hist.polls >= 1 /\ hist.allSame
      /\ clock - hist.firstPollTime >= args.quiet_for )
    => (result.status = "success" /\ result.elapsed >= args.quiet_for)

\* C2 amended: when every poll of a call fetches the same blob, the call
\* returns success with elapsed >= quiet_for provided quiet_for plus one
\* poll_interval plus the time spent outside the sleeps fits in timeout.
C2_SuccessWhenStable ==
    ( /\ Done /\ Polled /\ hist.allSame
      /\ args.quiet_for + args.poll_interval + hist.delay <= args.timeout )
    => (result.status = "success" /\ result.elapsed >= args.quiet_for)

C2_Witness ==
    /\ Done /\ Polled /\ hist.allSame
    /\ args.quiet_for + args.poll_interval + hist.delay <= args.timeout
    /\ hist.delay >= 1
    /\ hist.firstBlob = "abc"
    /\ result.status = "success"

\* C3 as stated: with quiet_for > timeout a call on a resolved pane whose
\* fetches do not fail returns timeout, never success, and with
\* quiet_for >= timeout it never returns an error.
C3_Original ==
    (Done /\ Polled /\ args.quiet_for >= args.timeout) =>
        /\ result.status # "error"
        /\ args.quiet_for > args.timeout => result.status = "timeout"

\* C3 amended: with quiet_for >= timeout such a call never returns an error;
\* with quiet_for > timeout it returns timeout, except that it returns success
\* when more than quiet_for - timeout passed between an iteration's loop test
\* and its quiet test (the fetch was that slow); it always returns timeout when
\* the clock advances only in the sleeps.
C3_TimeoutWhenQuietExceedsTimeout ==
    (Done /\ Polled /\ args.quiet_for >= args.timeout) =>
        /\ result.status \in {"timeout", "success"}
        /\ (args.quiet_for > args.timeout /\ result.status = "success") =>
              hist.quietAt - hist.iterStart > args.quiet_for - args.timeout
        /\ (args.quiet_for > args.timeout /\ hist.delay = 0) =>
              result.status = "timeout"

C3_Witness ==
    /\ Done /\ Polled
    /\ args.quiet_for > args.timeout
    /\ result.status = "timeout"
    /\ hist.polls >= 2
    /\ hist.allSame

\* C4: when every poll of a call fetched content different from the previous
\* poll's content (the first poll: different from the initial empty content),
\* the call returned timeout with elapsed >= timeout.
C4_TimeoutWhenAlwaysChanging ==
    (Done /\ Polled /\ hist.everyChanged) =>
        (result.status = "timeout" /\ result.elapsed >= args.timeout)

C4_Witness ==
    /\ Done /\ Polled /\ hist.everyChanged
    /\ hist.polls >= 3
    /\ result.status = "timeout"

\* C5 as stated: a timeout result has timeout <= elapsed <= timeout +
\* poll_interval.
C5_Original ==
    result.status = "timeout" =>
        /\ result.elapsed >= args.timeout
        /\ result.elapsed <= args.timeout + args.poll_interval

\* C5 amended: a timeout result has elapsed >= timeout, and elapsed exceeds
\* timeout by less than the time since the last loop test that passed: one
\* poll_interval plus the time spent outside the sleeps; by at most one
\* poll_interval when the clock advances only in the sleeps.
C5_TimeoutElapsedBounds ==
    result.status = "timeout" =>
        /\ result.elapsed >= args.timeout
        /\ result.elapsed < args.timeout + args.poll_interval + hist.delay
        /\ hist.iterStart # NoTime =>
              result.elapsed - args.timeout < clock - hist.iterStart
        /\ hist.delay = 0 =>
              result.elapsed <= args.timeout + args.poll_interval

C5_Witness ==
    /\ result.status = "timeout"
    /\ result.elapsed > args.timeout
    /\ hist.delay = 0
    /\ hist.sleeps >= 2

\* C6: a failing fetch ends the call at once with the error result
\* WAIT_IDLE_FAILED carrying the failure's message; after it there is no
\* further poll or sleep and the result does not change.
C6_FetchFailureAborts ==
    /\ [](hist.fetchError # None =>
            /\ Done
            /\ result = [status |-> "error", message |-> hist.fetchError,
                         code |-> "WAIT_IDLE_FAILED"])
    /\ [][hist.fetchError # None =>
            (hist'.polls = hist.polls /\ hist'.sleeps = hist.sleeps
             /\ result' = result)]_vars
    /\ [][(hist.fetchError = None /\ hist'.fetchError # None) =>
            (hist'.polls = hist.polls /\ hist'.sleeps = hist.sleeps
             /\ clock' = clock /\ pc' = "done")]_vars

C6_Witness ==
    /\ Done
    /\ hist.fetchError # None
    /\ hist.polls = 2
    /\ hist.sleeps = 2
    /\ result.status = "error"

\* C7: when the window or the pane of the call is not in the session, the call
\* ends with the error result PANE_NOT_FOUND after one lookup, without having
\* entered the loop: no fetch, no sleep, no start_time.
C7_NotFoundBeforeLoop ==
    (pc # "call" /\ session # None /\ Unresolved) =>
        /\ Done
        /\ result.status = "error"
        /\ result.code = "PANE_NOT_FOUND"
        /\ hist.lookups = 1
        /\ hist.polls = 0
        /\ hist.sleeps = 0
        /\ hist.fetchError = None
        /\ start_time = NoTime

C7_Witness ==
    /\ Done
    /\ session # None
    /\ args.window_index \in DOMAIN panes
    /\ args.pane_index \notin panes[args.window_index]
    /\ result.code = "PANE_NOT_FOUND"

\* C8 as stated: on a pane that shows the same non-empty content at every poll,
\* a success result has elapsed >= quiet_for + poll_interval.
C8_Original ==
    (result.status = "success" /\ hist.allSame /\ hist.firstBlob # "") =>
        result.elapsed >= args.quiet_for + args.poll_interval

\* C8 amended: on such a pane the first poll registers as a change and restarts
\* the quiet clock, so success takes at least one further poll after a sleep,
\* and elapsed is at least quiet_for counted from the first poll and at least
\* one poll_interval; it can be less than quiet_for + poll_interval.
C8_MinimumElapsed ==
    (result.status = "success" /\ hist.allSame /\ hist.firstBlob # "") =>
        /\ hist.polls >= 2
        /\ hist.sleeps >= 1
        /\ last_change_time >= hist.firstPollTime
        /\ result.elapsed >= args.quiet_for + (hist.firstPollTime - start_time)
        /\ result.elapsed >= args.poll_interval

C8_Witness ==
    /\ result.status = "success" /\ hist.allSame /\ hist.firstBlob # ""
    /\ result.elapsed = args.quiet_for
    /\ result.elapsed < args.quiet_for + args.poll_interval

\* C9 as stated (ticks of 0.2 s): scenario 1 ends in success with
\* 0.2 <= elapsed <= 1.4.
C9_Original ==
    Done => (result.status = "success" /\ result.elapsed >= 1
             /\ result.elapsed <= 7)

\* C9 amended: scenario 1 ends in success with 0.2 <= elapsed <= 1.4 provided
\* the call spends at most 0.4 s outside its sleeps; a success has
\* 1.0 <= elapsed <= 1.0 + the time spent outside the sleeps.
C9_Scenario1 ==
    Done =>
        /\ hist.delay <= 2 =>
              (result.status = "success" /\ result.elapsed >= 1
               /\ result.elapsed <= 7)
        /\ result.status = "success" =>
              (result.elapsed >= 5 /\ result.elapsed <= 5 + hist.delay)

C9_Witness ==
    /\ Done
    /\ hist.delay = 0
    /\ result.status = "success"
    /\ result.elapsed = 5
    /\ hist.polls = 6

\* C10: a completed call has exactly one of the outcomes success, timeout and
\* error; success and timeout carry elapsed and no message, error carries a
\* message and no elapsed; the outcome is error exactly when the pane was not
\* resolved or a fetch failed, timeout when the loop ran out and success when
\* the quiet test held; a call in progress has no outcome, and an outcome once
\* returned does not change.
C10_ThreeOutcomes ==
    /\ [](Done <=> result.status # "none")
    /\ [](Done =>
            /\ result.status \in {"success", "timeout", "error"}
            /\ result.status \in {"success", "timeout"} =>
                  /\ "elapsed" \in DOMAIN result
                  /\ "message" \notin DOMAIN result
                  /\ result.elapsed = clock - start_time
            /\ result.status = "error" =>
                  /\ "message" \in DOMAIN result
                  /\ "elapsed" \notin DOMAIN result
            /\ result.status = "error" <=> ~Polled)
    /\ [][(pc = "expired" /\ pc' = "done") => result'.status = "timeout"]_vars
    /\ [][(pc = "idle" /\ pc' = "done") => result'.status = "success"]_vars
    /\ [][result.status # "none" => result' = result]_vars

C10_Witness ==
    /\ Done
    /\ result.status = "timeout"
    /\ "elapsed" \in DOMAIN result
    /\ result.elapsed >= args.timeout

\* C11: once the call has started, last_change_time >= start_time and
\* last_change_time never decreases; last_change_time and last_content change
\* only in the comparison of a poll whose snapshot differs from last_content,
\* and that comparison sets last_change_time to the current time and
\* last_content to the new snapshot.
C11_ChangeTimeMovesForward ==
    /\ [](start_time # NoTime => last_change_time >= start_time)
    /\ [][start_time # NoTime =>
            /\ start_time' = start_time
            /\ last_change_time' >= last_change_time]_vars
    /\ [][(start_time # NoTime
           /\ (last_change_time' # last_change_time
               \/ last_content' # last_content)) =>
            /\ pc = "compare"
            /\ current_content_str # last_content
            /\ last_change_time' = clock
            /\ last_content' = current_content_str]_vars
    /\ [][(pc = "compare" /\ pc' # "compare"
           /\ current_content_str # last_content) =>
            /\ last_change_time' = clock
            /\ last_content' = current_content_str]_vars

C11_Witness ==
    /\ pc = "sleep"
    /\ hist.polls >= 3
    /\ last_change_time > start_time
    /\ last_change_time < clock
    /\ last_content = "abc"

\* C13: no step of a wait_idle call changes the pane's content, the session's
\* windows and panes, the manager's session or the server's sessions, and the
\* call asks no change of tmux (no send_keys, split, create or kill), whatever
\* its outcome; what it does is one lookup, fetches and sleeps.
C13_WaitIdleReadOnly ==
    /\ [](muxlog = <<>>)
    /\ [][(pc' # pc \/ hist' # hist \/ result' # result) =>
            /\ screen' = screen
            /\ panes' = panes
            /\ muxlog' = muxlog
            /\ session' = session
            /\ sessions' = sessions]_vars
    /\ [](Done => hist.lookups = 1)

C13_Witness ==
    /\ Done
    /\ result.status = "success"
    /\ hist.polls >= 3
    /\ hist.sleeps >= 2
    /\ screen = Lines(<<"abc", "$">>)
    /\ muxlog = <<>>

-----------------------------------------------------------------------------
(* Properties of the manager's operations *)

\* the step in which the operation op returns
OpStep(op) == pc = "ready" /\ pc' = "done" /\ args'.op = op

\* the window and the pane of the operation's arguments are in the session
TargetFound(a) ==
    /\ a.window_index \in DOMAIN panes
    /\ a.pane_index \in panes[a.window_index]

\* C15: send_command on an existing window and pane (when no tmux call raises)
\* sends the command to that pane exactly once, with enter = not --no-enter,
\* and returns success echoing the command; when the window or the pane is not
\* found it sends nothing and returns the error PANE_NOT_FOUND.
C15_SendCommandOnce ==
    [][OpStep("send_command") =>
        /\ (session # None /\ TargetFound(args') /\ hist'.raised = None) =>
              /\ muxlog' = Append(muxlog,
                     [call |-> "send_keys", window |-> args'.window_index,
                      pane |-> args'.pane_index, keys |-> args'.command,
                      enter |-> ~args'.no_enter])
              /\ result'.status = "success"
              /\ result'.command = args'.command
        /\ (session # None /\ ~TargetFound(args') /\ hist'.raised = None) =>
              /\ muxlog' = muxlog
              /\ result'.status = "error"
              /\ result'.code = "PANE_NOT_FOUND"
        /\ panes' = panes]_vars

C15_Witness ==
    /\ Done
    /\ args.op = "send_command"
    /\ args.no_enter
    /\ result.status = "success"
    /\ Len(muxlog) = 1
    /\ muxlog[1].enter = FALSE
    /\ muxlog[1].keys = "make test"

\* C16: a successful capture_pane of a pane with n captured lines returns
\* lines = min(n, requested lines) and content = the last min(n, requested
\* lines) captured lines joined by newlines, for any requested lines value.
C16_CaptureLastLines ==
    (Done /\ args.op = "capture_pane" /\ result.status = "success") =>
        LET captured == IF screen.captured THEN screen.lines ELSE <<>>
            n == Len(captured)
            k == IF n <= args.lines THEN n ELSE args.lines
            last == [i \in 1..k |-> captured[n - k + i]]
        IN  /\ result.lines = k
            /\ result.content = JoinLines(last)

\* the name of the session an operation works on: the bound session, or for
\* list_windows the session it was asked for
OperatedSession ==
    IF args.op = "list_windows" /\ args.session_name # None
    THEN args.session_name
    ELSE session

\* C20: once constructed, the manager is bound to the requested session when
\* the server lists it; otherwise to the first listed session, whose name
\* becomes session_name; the session named in a result is the session operated
\* on; with no session at all, every operation other than list_sessions returns
\* an error and asks nothing of tmux.
C20_BoundSession ==
    (pc # "new") =>
        /\ (hist.requested \in SeqRange(sessions)) => session = hist.requested
        /\ (hist.requested \notin SeqRange(sessions) /\ sessions # <<>>) =>
              /\ session = sessions[1]
              /\ session_name = sessions[1]
        /\ (sessions = <<>>) <=> (session = None)
        /\ (session # None) => session_name = session
        /\ (pc = "done" /\ "session" \in DOMAIN result) =>
              result.session = OperatedSession
        /\ (pc = "done" /\ session = None /\ args.op # "list_sessions") =>
              /\ result.status = "error"
              /\ muxlog = <<>>
              /\ panes = [w \in {} |-> {}]

C20_Witness ==
    /\ pc = "done"
    /\ hist.requested = "work"
    /\ sessions = <<"other", "claude-dev">>
    /\ session = "other"
    /\ result.status = "success"
    /\ result.session = "other"

\* the indices of the send_keys entries of a log
SendsOf(log) == { i \in 1..Len(log) : log[i].call = "send_keys" }

\* C18: create_window asks tmux for the window first, then sends the shell to
\* the new window's pane and only then the command; the command is sent at most
\* once and only when a non-empty command was given; when the window creation
\* fails or the new window has no attached pane, nothing is sent and the result
\* is the error CREATE_WINDOW_FAILED.
C18_CreateWindowOrder ==
    [][OpStep("create_window") =>
        LET log == muxlog'
            a == args'
            sends == SendsOf(log)
            created == panes' # panes
        IN  /\ muxlog = <<>>
            /\ Len(log) <= 3
            /\ \A i \in 1..Len(log) :
                  /\ (log[i].call = "new_window") <=> (i = 1)
                  /\ (i = 2) => (log[i].keys = a.shell /\ log[i].enter)
                  /\ (i = 3) => (log[i].keys = a.command /\ log[i].enter)
                  /\ (i > 1) => (log[i].window = log[1].window /\ log[i].pane = 0)
            /\ (Len(log) = 3) => (a.command # None /\ a.command # "")
            /\ created <=> (Len(log) >= 1)
            /\ (result'.status = "success") =>
                  /\ Len(log) = (IF a.command \in {None, ""} THEN 2 ELSE 3)
                  /\ result'.window_index = log[1].window
                  /\ log[1].window \notin DOMAIN panes
                  /\ log[1].keys = a.window_name
            /\ (~created \/ hist'.raised = NoPaneMessage) =>
                  /\ sends = {}
                  /\ result'.status = "error"
            /\ (result'.status = "error") =>
                  result'.code = "CREATE_WINDOW_FAILED"]_vars

C18_Witness ==
    /\ Done
    /\ args.op = "create_window"
    /\ args.command = "ls"
    /\ result.status = "success"
    /\ Len(muxlog) = 3
    /\ muxlog[1].call = "new_window"
    /\ muxlog[2].keys = "/bin/bash"
    /\ muxlog[3].keys = "ls"

\* the windows and panes of a layout, as a set of pairs
PanesOf(layout) == { <<w, p>> \in WindowIdx \X PaneIdx :
                        w \in DOMAIN layout /\ p \in layout[w] }

\* C19: kill_window and kill_pane kill nothing unless their target is found: a
\* missing window gives the error WINDOW_NOT_FOUND, a missing pane of an
\* existing window gives the error PANE_NOT_FOUND, and then no window or pane is
\* killed; on success exactly the one addressed window or pane is killed.
C19_KillOnlyTarget ==
    [][(OpStep("kill_window") \/ OpStep("kill_pane")) =>
        LET a == args'
            w == a.window_index
            quiet == session # None /\ hist'.raised = None
            kept == muxlog' = muxlog /\ panes' = panes
        IN  /\ (quiet /\ w \notin DOMAIN panes) =>
                  (result'.status = "error" /\ result'.code = "WINDOW_NOT_FOUND")
            /\ (quiet /\ a.op = "kill_pane" /\ w \in DOMAIN panes
                      /\ a.pane_index \notin panes[w]) =>
                  (result'.status = "error" /\ result'.code = "PANE_NOT_FOUND")
            /\ (result'.status = "error") => kept
            /\ (result'.status = "success" /\ a.op = "kill_window") =>
                  /\ w \in DOMAIN panes
                  /\ muxlog' = Append(muxlog,
                         [call |-> "kill_window", window |-> w, pane |-> 0,
                          keys |-> "", enter |-> FALSE])
                  /\ DOMAIN panes' = DOMAIN panes \ {w}
                  /\ \A x \in DOMAIN panes' : panes'[x] = panes[x]
            /\ (result'.status = "success" /\ a.op = "kill_pane") =>
                  /\ <<w, a.pane_index>> \in PanesOf(panes)
                  /\ muxlog' = Append(muxlog,
                         [call |-> "kill_pane", window |-> w,
                          pane |-> a.pane_index, keys |-> "", enter |-> FALSE])
                  /\ PanesOf(panes') = PanesOf(panes) \ {<<w, a.pane_index>>}]_vars

C19_Witness ==
    /\ Done
    /\ args.op = "kill_pane"
    /\ result.status = "success"
    /\ args.window_index = 0
    /\ args.pane_index = 1
    /\ PanesOf(panes) = {<<0, 0>>, <<1, 0>>, <<1, 1>>}
    /\ Len(muxlog) = 1

\* the code of an operation's except clause
FailureCode(op) ==
    CASE op = "create_window" -> "CREATE_WINDOW_FAILED"
      [] op = "create_pane" -> "CREATE_PANE_FAILED"
      [] op = "send_command" -> "SEND_COMMAND_FAILED"
      [] op = "capture_pane" -> "CAPTURE_PANE_FAILED"
      [] op = "wait_idle" -> "WAIT_IDLE_FAILED"
      [] op = "list_sessions" -> "LIST_SESSIONS_FAILED"
      [] op = "list_windows" -> "LIST_WINDOWS_FAILED"
      [] op = "list_panes" -> "LIST_PANES_FAILED"
      [] op = "kill_window" -> "KILL_WINDOW_FAILED"
      [] op = "kill_pane" -> "KILL_PANE_FAILED"

\* a call made by the finished operation raised (the session property's
\* RuntimeError included)
Raised ==
    \/ hist.raised # None
    \/ hist.fetchError # None
    \/ (args.op = "wait_idle" /\ session = None)

\* the finished operation returned the error of its own except clause
OwnFailure ==
    /\ result.status = "error"
    /\ "message" \in DOMAIN result
    /\ result.code = FailureCode(args.op)

\* list_windows was asked for a session by another name than the manager's
OtherSessionAsked ==
    /\ args.op = "list_windows"
    /\ args.session_name \notin {None, session_name}

\* C14 as stated: whenever a tmux call raises or no session is available, the
\* finished operation returns status error, a message and its own failure code.
C14_Original ==
    (Done /\ (Raised \/ session = None)) => OwnFailure

\* C14: every operation ends with a result; when a tmux call raises, the
\* result is status error with the raised message and the operation's own
\* failure code; when no session is available, every operation but
\* list_sessions returns an error, with its own failure code except that
\* list_windows asked for another session's name returns SESSION_NOT_FOUND;
\* list_sessions, which asks only the server, then succeeds with an empty list.
C14_ErrorResults ==
    Done =>
        /\ result.status \in {"success", "error", "timeout"}
        /\ Raised => OwnFailure
        /\ (hist.raised # None) => result.message = hist.raised
        /\ (session = None /\ args.op # "list_sessions") =>
              /\ result.status = "error"
              /\ "message" \in DOMAIN result
              /\ (~OtherSessionAsked) => OwnFailure
              /\ (OtherSessionAsked /\ ~Raised) =>
                    result.code = "SESSION_NOT_FOUND"
        /\ (session = None /\ args.op = "list_sessions" /\ ~Raised) =>
              /\ result.status = "success"
              /\ result.sessions = <<>>

C14_Witness ==
    /\ Done
    /\ args.op = "create_window"
    /\ session # None
    /\ hist.raised \in MuxErrors
    /\ result.code = "CREATE_WINDOW_FAILED"
    /\ Len(muxlog) = 2

\* C17: under SpecFair, where the call keeps being run and each fetch and
\* each sleep returns, every wait_idle call ends, with a result of status
\* success, timeout or error, whatever the timings and the pane's output.
C17_Terminates ==
    <>(Done /\ result.status \in {"success", "timeout", "error"})

C17_Witness ==
    /\ Done
    /\ result.status = "timeout"
    /\ hist.polls >= 2
    /\ hist.sleeps >= 2
    /\ hist.everyChanged

\* the frame a call reaches when it runs alone and reads log[k], log[k+1], ...
RECURSIVE RunAlone(_, _, _)
RunAlone(c, log, k) ==
    IF k > Len(log) THEN c ELSE RunAlone(LocalStep(c, log[k]), log, k + 1)

DetectionState(c) == <<c.start_time, c.last_content, c.last_change_time>>

====
